---- MODULE Spec2Model ----
(***************************************************************************)
(* Lchat backend: the on-demand translation pipeline.                      *)
(*   backend/utils/translate.js      translateText, lookupCulturalIdiom,   *)
(*                                   getPhraseFromCSV, detectLanguage      *)
(*   backend/utils/localTranslator   loadModel, localTranslate             *)
(*   backend/routes/translation.js   POST /translate and its CSV update    *)
(*   backend/routes/audio            POST /audio/transcribe-and-translate, *)
(*                                   from the transcript on                *)
(*                                                                         *)
(* A text is a sequence of UTF-16 code units (integers).  JavaScript's     *)
(* null, undefined and "" are all falsy and the code only ever tests them  *)
(* for truthiness, so the three are represented by the empty sequence.     *)
(***************************************************************************)
EXTENDS Integers, Sequences, FiniteSets, TLC

\* ------------------------------------------------------------------ bounds
\* Number of translateText calls / POST /translate requests; all of them
\* may be in flight at once.
MaxRequests == 2

\* --------------------------------------------------------- code units
Comma == 44
Quote == 34
LF == 10
CR == 13

Falsy == << >>

\* ------------------------------------------------------------ the inputs
\* "a", "A " (the same phrase up to case and trimming), "a," (a phrase with
\* a literal comma), a Devanagari phrase, a whitespace-only and an empty text.
TextA == <<97>>
TextUpperA == <<65, 32>>
TextComma == <<97, 44>>
TextDeva == <<2309>>
TextBlank == <<32>>
TextEmpty == << >>
Texts == {TextA, TextUpperA, TextComma, TextDeva, TextBlank, TextEmpty}

\* What the NLLB translator may hand back as result[0]?.translation_text:
\* "x", "A" (equal to "a" up to case) or nothing at all.
OutX == <<120>>
OutUpperA == <<65>>
EngineOutputs == {OutX, OutUpperA, Falsy}

\* languageMap
Langs == {"en", "hi", "mr", "te", "ta"}

Slots == 1..MaxRequests

\* ------------------------------------------------- String.prototype helpers
IsSpace(c) == c \in {9, 10, 11, 12, 13, 32}

RECURSIVE TrimStart(_)
TrimStart(s) ==
  IF s # << >> /\ IsSpace(Head(s)) THEN TrimStart(Tail(s)) ELSE s

RECURSIVE TrimEnd(_)
TrimEnd(s) ==
  IF s # << >> /\ IsSpace(s[Len(s)]) THEN TrimEnd(SubSeq(s, 1, Len(s) - 1)) ELSE s

\* String.prototype.trim
Trim(s) == TrimEnd(TrimStart(s))

\* String.prototype.toLowerCase on the code units of the inputs
ToLowerCase(s) ==
  [i \in 1..Len(s) |-> IF s[i] >= 65 /\ s[i] <= 90 THEN s[i] + 32 ELSE s[i]]

\* String.prototype.split on one code unit
RECURSIVE SplitOn(_, _)
SplitOn(s, c) ==
  IF \E i \in 1..Len(s) : s[i] = c
  THEN LET i == CHOOSE k \in 1..Len(s) :
                  s[k] = c /\ \A j \in 1..(k - 1) : s[j] # c
       IN <<SubSeq(s, 1, i - 1)>> \o SplitOn(SubSeq(s, i + 1, Len(s)), c)
  ELSE <<s>>

\* csv.split(/\r?\n/): split on LF, a CR right before the LF belongs to the
\* separator
SplitLines(csv) ==
  LET parts == SplitOn(csv, LF)
  IN [i \in 1..Len(parts) |->
        IF i < Len(parts) /\ parts[i] # << >> /\ parts[i][Len(parts[i])] = CR
        THEN SubSeq(parts[i], 1, Len(parts[i]) - 1)
        ELSE parts[i]]

\* s.replace(/^"|"$/g, ''): one leading and one trailing double quote go; a
\* string that is a single quote loses it once
StripQuotes(s) ==
  IF s # << >> /\ s[1] = Quote
  THEN IF Len(s) >= 2 /\ s[Len(s)] = Quote
       THEN SubSeq(s, 2, Len(s) - 1)
       ELSE Tail(s)
  ELSE IF s # << >> /\ s[Len(s)] = Quote
       THEN SubSeq(s, 1, Len(s) - 1)
       ELSE s

\* const [src, tgt] = line.split(',').map(s => s.replace(/^"|"$/g, '').trim())
ParseLine(line) ==
  LET parts == SplitOn(line, Comma)
      f == [i \in 1..Len(parts) |-> Trim(StripQuotes(parts[i]))]
  IN [src |-> f[1], tgt |-> IF Len(f) >= 2 THEN f[2] ELSE Falsy]

\* `"${p.trim()}","${t.trim()}"\n`
FormatRecord(p, t) ==
  <<Quote>> \o Trim(p) \o <<Quote, Comma, Quote>> \o Trim(t) \o <<Quote, LF>>

\* a.trim().toLowerCase() === b.trim().toLowerCase()
SameText(a, b) == ToLowerCase(Trim(a)) = ToLowerCase(Trim(b))

\* ------------------------------------------------------- translate.js
\* mutant: the Telugu test comes before the Tamil test
detectLanguageTeluguFirst(text) ==
  IF \E i \in 1..Len(text) : text[i] >= 3072 /\ text[i] <= 3199
  THEN [language |-> "te", confidence |-> 10]
  ELSE IF \E i \in 1..Len(text) : text[i] >= 2944 /\ text[i] <= 3071
  THEN [language |-> "ta", confidence |-> 10]
  ELSE IF \E i \in 1..Len(text) : text[i] >= 2304 /\ text[i] <= 2431
  THEN [language |-> "hi", confidence |-> 8]
  ELSE [language |-> "en", confidence |-> 5]

\* detectLanguage: Tamil /[\u0B80-\u0BFF]/, then Telugu /[\u0C00-\u0C7F]/,
\* then Devanagari /[\u0900-\u097F]/, else English.  The confidence is
\* counted in tenths: 1.0, 1.0, 0.8, 0.5.
detectLanguage(text) ==
  IF \E i \in 1..Len(text) : text[i] >= 2944 /\ text[i] <= 3071
  THEN [language |-> "ta", confidence |-> 10]
  ELSE IF \E i \in 1..Len(text) : text[i] >= 3072 /\ text[i] <= 3199
  THEN [language |-> "te", confidence |-> 10]
  ELSE IF \E i \in 1..Len(text) : text[i] >= 2304 /\ text[i] <= 2431
  THEN [language |-> "hi", confidence |-> 8]
  ELSE [language |-> "en", confidence |-> 5]

\* mutant: the last matching line wins
ScanLinesLast(csv, input) ==
  LET lines == SplitLines(csv)
      hits == {i \in 1..Len(lines) :
                 LET rec == ParseLine(lines[i])
                 IN rec.src # Falsy /\ rec.tgt # Falsy /\ ToLowerCase(rec.src) = input}
  IN IF hits = {} THEN Falsy
     ELSE ParseLine(lines[CHOOSE i \in hits : \A j \in hits : i >= j]).tgt

\* the for-loop of lookupCulturalIdiom and getPhraseFromCSV: the target of the
\* first line with src && tgt && src.toLowerCase() === input, else null
ScanLines(csv, input) ==
  LET lines == SplitLines(csv)
      hits == {i \in 1..Len(lines) :
                 LET rec == ParseLine(lines[i])
                 IN rec.src # Falsy /\ rec.tgt # Falsy /\ ToLowerCase(rec.src) = input}
  IN IF hits = {} THEN Falsy
     ELSE ParseLine(lines[CHOOSE i \in hits : \A j \in hits : i <= j]).tgt

\* the eight hard-coded idiom files; "" stands for idiomFile = null
IdiomFileName(sourceLang, targetLang) ==
  IF (sourceLang = "en" /\ targetLang \in {"hi", "mr", "ta", "te"})
     \/ (targetLang = "en" /\ sourceLang \in {"hi", "mr", "ta", "te"})
  THEN sourceLang \o "-" \o targetLang \o "-idioms.csv"
  ELSE ""

\* mutant: the input is trimmed but not lower-cased
lookupCulturalIdiomCaseSensitive(dir, text, sourceLang, targetLang) ==
  LET idiomFile == IdiomFileName(sourceLang, targetLang)
  IN IF idiomFile = "" THEN Falsy
     ELSE IF idiomFile \notin DOMAIN dir THEN Falsy
     ELSE ScanLines(dir[idiomFile], Trim(text))

\* lookupCulturalIdiom; readFileSync of a missing file throws and the catch
\* falls through to return null
lookupCulturalIdiom(dir, text, sourceLang, targetLang) ==
  LET idiomFile == IdiomFileName(sourceLang, targetLang)
  IN IF idiomFile = "" THEN Falsy
     ELSE IF idiomFile \notin DOMAIN dir THEN Falsy
     ELSE ScanLines(dir[idiomFile], ToLowerCase(Trim(text)))

\* mutant: the phrase file takes the idiom file's name
PairFileNameIdioms(sourceLang, targetLang) ==
  sourceLang \o "-" \o targetLang \o "-idioms.csv"

\* `${sourceLang}-${targetLang}.csv`
PairFileName(sourceLang, targetLang) == sourceLang \o "-" \o targetLang \o ".csv"

\* getPhraseFromCSV; readFails: readdirSync or readFileSync throws, which the
\* catch turns into null
getPhraseFromCSV(dir, text, sourceLang, targetLang, readFails) ==
  LET pairFile == PairFileName(sourceLang, targetLang)
  IN IF readFails THEN Falsy
     ELSE IF pairFile \notin DOMAIN dir THEN Falsy
     ELSE ScanLines(dir[pairFile], ToLowerCase(Trim(text)))

\* mutant: the same-language test is missing
ShortCircuitTextOnly(text, targetLanguage, sourceLanguage) ==
  text = Falsy \/ Trim(text) = Falsy

\* mutant: the empty-text test is missing
ShortCircuitLangOnly(text, targetLanguage, sourceLanguage) ==
  sourceLanguage = targetLanguage

\* translateText line 29
ShortCircuit(text, targetLanguage, sourceLanguage) ==
  text = Falsy \/ Trim(text) = Falsy \/ sourceLanguage = targetLanguage

\* translateText lines 67-71: one engine call when an endpoint is English,
\* else source -> en -> target
NeedsPivot(targetLanguage, sourceLanguage) ==
  ~(sourceLanguage = "en" \/ targetLanguage = "en")

\* mutant: local > phrase
PriorityLocalFirst(text, phrase, localResult) ==
  IF localResult # Falsy /\ ~SameText(localResult, text) THEN localResult
  ELSE IF phrase # Falsy THEN phrase
  ELSE text

\* mutant: the engine's text is compared with the input as it is
PriorityExact(text, phrase, localResult) ==
  IF phrase # Falsy THEN phrase
  ELSE IF localResult # Falsy /\ localResult # text THEN localResult
  ELSE text

\* translateText lines 75-83: phrase > local > original text
Priority(text, phrase, localResult) ==
  IF phrase # Falsy THEN phrase
  ELSE IF localResult # Falsy /\ ~SameText(localResult, text) THEN localResult
  ELSE text

\* localTranslate line 46: result[0]?.translation_text || text
TranslationText(raw, text) == IF raw # Falsy THEN raw ELSE text

\* ------------------------------------------------------ translation.js
\* the handler's condition for touching the CSV (lines 43-46)
IsNewTranslation(translatedText, processedText) ==
  translatedText # Falsy /\ ~SameText(translatedText, processedText)

\* mutant: the duplicate check finds nothing
FoundInCsvNever(csv, processedText) == FALSE

\* the handler's duplicate check (lines 57-63): src && src.toLowerCase() ===
\* processedText.trim().toLowerCase(), the target field is not looked at
FoundInCsv(csv, processedText) ==
  LET lines == SplitLines(csv)
  IN \E i \in 1..Len(lines) :
       LET rec == ParseLine(lines[i])
       IN rec.src # Falsy /\ ToLowerCase(rec.src) = ToLowerCase(Trim(processedText))

\* ------------------------------------------------------------- the state
VARIABLES
  data,          \* backend/data: file name -> content
  modelCache,    \* localTranslator.js modelCache
  pipelineCalls, \* number of pipeline() calls
  reqs,          \* the translateText calls / POST /translate requests
  audio,         \* the POST /audio/transcribe-and-translate request
  detection,     \* the last detectLanguage call and what it returned
  sockets,       \* socket.io: socket id -> connection state, userId, rooms
  connectedUsers, \* server.js connectedUsers: userId -> socket id
  online,        \* User collection: userId -> isOnline
  emitted,       \* the user_online events emitted so far
  sends,         \* the running sendMessage handlers
  messages,      \* Message collection: id -> document
  conversations, \* Conversation collection: id -> last-message fields
  stories,       \* Story collection: id -> document
  votes,         \* the running PATCH /stories/:id/vote handlers
  clock,         \* Date.now(), in hours
  fetches,       \* the running GET /stories handlers
  edits          \* the running DELETE and PATCH /messages/:messageId handlers

\* the translation pipeline's state
pipelineVars == <<data, modelCache, pipelineCalls, reqs, audio, detection>>

\* the socket server's state
socketVars == <<sockets, connectedUsers, online, emitted, sends, conversations>>

\* the rest of the backend, which the translation pipeline never touches
\* the stories routes' state
storyVars == <<stories, votes, clock, fetches>>

chat == <<socketVars, messages, storyVars, edits>>

vars == <<pipelineVars, chat>>

\* what the translation route leaves alone
outside == <<audio, detection, chat>>

\* the pre-seeded idiom table of en -> hi: "a" -> "i", then "A" -> "j"
OutI == <<105>>
OutJ == <<106>>
IdiomRecordsEnHi == <<[src |-> TextA, tgt |-> OutI], [src |-> OutUpperA, tgt |-> OutJ]>>

RECURSIVE WriteRecords(_)
WriteRecords(recs) ==
  IF recs = << >> THEN << >>
  ELSE FormatRecord(Head(recs).src, Head(recs).tgt) \o WriteRecords(Tail(recs))

IdiomEnHi == WriteRecords(IdiomRecordsEnHi)

\* a phrase file left by an earlier translation of the Devanagari phrase
PhraseHiEn == FormatRecord(TextDeva, OutX)

IdleReq ==
  [pc |-> "idle", text |-> Falsy, target |-> "en", source |-> "en",
   idiom |-> Falsy, phrase |-> Falsy, localResult |-> Falsy, input |-> Falsy,
   leg |-> 0, engineCalls |-> 0, idiomLookups |-> 0, phraseLookups |-> 0,
   settled |-> "pending", translatedText |-> Falsy, status |-> 0,
   wrote |-> "none", ioFault |-> FALSE, after |-> {},
   detectCalls |-> 0, lookupFault |-> "none", translator |-> 0]

IdleAudio ==
  [pc |-> "idle", transcript |-> Falsy, source |-> "en", target |-> "en",
   engineCalls |-> 0, translator |-> 0, translation |-> Falsy, status |-> 0,
   polls |-> 0, lastStatus |-> "none", languageCode |-> << >>]

NoDetection == [called |-> FALSE, text |-> Falsy, language |-> "en", confidence |-> 0]

\* ------------------------------------------------ the chat backend's data
\* Number of socket connections made to the server.
MaxSockets == 2

\* Number of sendMessage events handled.
MaxSends == 1

Users == {"u1", "u2"}

\* handshake.query.userId; "" is a connection without one
NoUser == ""

SocketIds == 1..MaxSockets
SendIds == 1..MaxSends

\* conversation ids a client may name: "c1" has a Conversation document,
\* "c2" is a well-formed id without one, "" is a missing id
ConversationIds == {"c1", "c2"}
NoConversation == ""

NewSocket == [state |-> "new", userId |-> NoUser, rooms |-> {}]

IdleSend ==
  [pc |-> "idle", socket |-> 0, senderId |-> NoUser, conversationId |-> NoConversation,
   text |-> Falsy, saved |-> FALSE, updated |-> FALSE, broadcast |-> FALSE,
   recipients |-> {}]

\* editedAt of a message never edited
NoDate == -1

\* a message "m1" that u1 sent earlier
StoredMessage ==
  [senderId |-> "u1", conversationId |-> "c1", textOriginal |-> TextA,
   editedAt |-> NoDate, isDeleted |-> FALSE]

NoLastMessage == [lastMessageText |-> Falsy, lastMessageBy |-> NoUser]

\* Number of DELETE and PATCH /messages/:messageId requests handled.
MaxEdits == 2

EditIds == 1..MaxEdits

\* req.params.messageId: the stored message's id and an id no message has
MessageIds == {"m1", "m0"}

\* req.body.text of an edit
EditTexts == {Falsy, TextBlank, OutX}

IdleEdit ==
  [pc |-> "idle", method |-> "PATCH", user |-> NoUser, messageId |-> "m1",
   text |-> Falsy, status |-> 0]

\* Number of vote requests handled.
MaxVotes == 2

\* Number of GET /stories requests handled.
MaxFetches == 1

\* Latest clock reading, in hours.
MaxClock == 18

VoteIds == 1..MaxVotes
FetchIds == 1..MaxFetches

\* "st1" is in the store from the start; "st2" is the story a POST creates
StoryIds == {"st1", "st2"}

\* req.body.optionId undefined or null
NoOption == -1

\* the option ids a vote request may carry
OptionInputs == {NoOption, 0, 1, 2}

\* a story of u1 with a two-option poll as the app's editor builds it
\* (option ids idx + 1), created at hour 0, nobody having voted
StoredStory ==
  [userId |-> "u1", createdAt |-> 0, hasPoll |-> TRUE,
   options |-> (1 :> 0) @@ (2 :> 0), votesByUser |-> << >>]

\* the polls a POST /stories body may carry: none, or two options whose
\* ids the client chose
PostedPolls == {<< >>, (0 :> 0) @@ (1 :> 0)}

IdleVote ==
  [pc |-> "idle", user |-> NoUser, storyId |-> "st1", optionId |-> NoOption,
   options |-> << >>, votesByUser |-> << >>, status |-> 0, message |-> "",
   seen |-> << >>]

IdleFetch ==
  [pc |-> "idle", user |-> NoUser, cutoff |-> 0, at |-> 0, docs |-> {},
   friendIds |-> {}, stories |-> {}, status |-> 0]

Init ==
  /\ data = ("en-hi-idioms.csv" :> IdiomEnHi) @@ ("hi-en.csv" :> PhraseHiEn)
  /\ modelCache = [translator |-> FALSE, translatorPromise |-> "none", instance |-> 0]
  /\ pipelineCalls = 0
  /\ reqs = [r \in Slots |-> IdleReq]
  /\ audio = IdleAudio
  /\ detection = NoDetection
  /\ sockets = [s \in SocketIds |-> NewSocket]
  /\ connectedUsers = << >>
  /\ online = [u \in Users |-> FALSE]
  /\ emitted = {}
  /\ sends = [h \in SendIds |-> IdleSend]
  /\ messages = ("m1" :> StoredMessage)
  /\ conversations = ("c1" :> NoLastMessage)
  /\ stories = ("st1" :> StoredStory)
  /\ votes = [v \in VoteIds |-> IdleVote]
  /\ clock = 0
  /\ fetches = [f \in FetchIds |-> IdleFetch]
  /\ edits = [e \in EditIds |-> IdleEdit]

DoneSlots == {q \in Slots : reqs[q].pc = "done"}

\* slots are taken in order
CanStart(r) ==
  /\ reqs[r].pc = "idle"
  /\ \A q \in Slots : q < r => reqs[q].pc # "idle"

\* translateText lines 20-37: the short circuit and the idiom lookup.  When
\* translateText returns here the handler goes on to its CSV update.
TranslateTextEntry(text, targetLanguage, sourceLanguage) ==
  LET base == [IdleReq EXCEPT !.text = text, !.target = targetLanguage,
                              !.source = sourceLanguage, !.after = DoneSlots]
      idiom == lookupCulturalIdiom(data, text, sourceLanguage, targetLanguage)
  IN IF ShortCircuit(text, targetLanguage, sourceLanguage)
     THEN [base EXCEPT !.pc = "update", !.settled = "resolved", !.translatedText = text]
     ELSE IF idiom # Falsy
     THEN [base EXCEPT !.pc = "update", !.idiomLookups = 1, !.idiom = idiom,
                       !.settled = "resolved", !.translatedText = idiom]
     ELSE [base EXCEPT !.pc = "phrase", !.idiomLookups = 1]

\* POST /translate, lines 10-39: preprocessing (an external collaborator)
\* yields processedText, the source language is detected, translateText is
\* called.  The handler is the only caller of translateText.
PostTranslate(r) ==
  /\ CanStart(r)
  /\ \E processedText \in Texts, targetLanguage \in Langs :
       reqs' = [reqs EXCEPT ![r] =
                  [TranslateTextEntry(processedText, targetLanguage,
                                      detectLanguage(processedText).language)
                     EXCEPT !.detectCalls = 1]]
  /\ UNCHANGED <<data, modelCache, pipelineCalls, outside>>

\* mutant: the pending promise is not remembered
LoadModelCallNoMemo ==
  IF ~modelCache.translator
  THEN /\ modelCache' = [modelCache EXCEPT !.translatorPromise = "pending",
                                           !.instance = pipelineCalls + 1]
       /\ pipelineCalls' = pipelineCalls + 1
  ELSE UNCHANGED <<modelCache, pipelineCalls>>

\* mutant: a rejected load promise is dropped and the load tried again
LoadModelCallRetry ==
  IF ~modelCache.translator /\ modelCache.translatorPromise \in {"none", "rejected"}
  THEN /\ modelCache' = [modelCache EXCEPT !.translatorPromise = "pending",
                                           !.instance = pipelineCalls + 1]
       /\ pipelineCalls' = pipelineCalls + 1
  ELSE UNCHANGED <<modelCache, pipelineCalls>>

\* loadModel up to its await (lines 23-28); instance names the pipeline()
\* call whose translator the promise carries
LoadModelCall ==
  IF ~modelCache.translator /\ modelCache.translatorPromise = "none"
  THEN /\ modelCache' = [modelCache EXCEPT !.translatorPromise = "pending",
                                           !.instance = pipelineCalls + 1]
       /\ pipelineCalls' = pipelineCalls + 1
  ELSE UNCHANGED <<modelCache, pipelineCalls>>

\* mutant: the engine is started only when the phrase lookup misses
PhraseThenLocal(r) ==
  /\ reqs[r].pc = "phrase"
  /\ \E readFails \in BOOLEAN :
       LET phrase == getPhraseFromCSV(data, reqs[r].text, reqs[r].source,
                                      reqs[r].target, readFails)
       IN IF phrase # Falsy
          THEN /\ reqs' = [reqs EXCEPT ![r].pc = "update", ![r].phraseLookups = 1,
                                       ![r].phrase = phrase, ![r].settled = "resolved",
                                       ![r].translatedText = phrase]
               /\ UNCHANGED <<modelCache, pipelineCalls>>
          ELSE /\ reqs' = [reqs EXCEPT ![r].pc = "load", ![r].phraseLookups = 1,
                                       ![r].input = reqs[r].text, ![r].leg = 1,
                                       ![r].engineCalls = 1]
               /\ LoadModelCall
  /\ UNCHANGED <<data, outside>>

\* mutant: a read failure of the phrase lookup is not caught
PhraseAndLocalUncaught(r) ==
  /\ reqs[r].pc = "phrase"
  /\ \E readFails \in BOOLEAN :
       IF readFails /\ PairFileName(reqs[r].source, reqs[r].target) \in DOMAIN data
       THEN /\ reqs' = [reqs EXCEPT ![r].pc = "done", ![r].phraseLookups = 1,
                                    ![r].lookupFault = "unreadable",
                                    ![r].settled = "rejected", ![r].status = 500]
            /\ UNCHANGED <<modelCache, pipelineCalls>>
       ELSE /\ reqs' = [reqs EXCEPT ![r].pc = "load",
                                    ![r].phraseLookups = 1,
                                    ![r].phrase = getPhraseFromCSV(data, reqs[r].text,
                                                     reqs[r].source, reqs[r].target, FALSE),
                                    ![r].lookupFault =
                                       IF PairFileName(reqs[r].source, reqs[r].target)
                                            \notin DOMAIN data THEN "missing" ELSE "none",
                                    ![r].input = reqs[r].text,
                                    ![r].leg = 1,
                                    ![r].engineCalls = 1]
            /\ LoadModelCall
  /\ UNCHANGED <<data, outside>>

\* translateText lines 65-73: the phrase lookup runs synchronously, then
\* localTranslate is started and both are awaited
PhraseAndLocal(r) ==
  /\ reqs[r].pc = "phrase"
  /\ \E readFails \in BOOLEAN :
       reqs' = [reqs EXCEPT ![r].pc = "load",
                            ![r].phraseLookups = 1,
                            ![r].phrase = getPhraseFromCSV(data, reqs[r].text, reqs[r].source,
                                                           reqs[r].target, readFails),
                            ![r].lookupFault =
                               IF PairFileName(reqs[r].source, reqs[r].target)
                                    \notin DOMAIN data THEN "missing"
                               ELSE IF readFails THEN "unreadable" ELSE "none",
                            ![r].input = reqs[r].text,
                            ![r].leg = 1,
                            ![r].engineCalls = 1]
  /\ LoadModelCall
  /\ UNCHANGED <<data, outside>>

\* pipeline('translation', ...) settles
PipelineSettles ==
  /\ modelCache.translatorPromise = "pending"
  /\ \E outcome \in {"fulfilled", "rejected"} :
       modelCache' = [modelCache EXCEPT !.translatorPromise = outcome]
  /\ UNCHANGED <<data, pipelineCalls, reqs, outside>>

\* translateText's promise rejects: the handler's catch (lines 85-103)
\* answers 500 'Translation failed'
Rejected(req) ==
  [req EXCEPT !.pc = "done", !.settled = "rejected", !.status = 500]

\* loadModel after its await (lines 29-31), inside localTranslate line 42
LoadModelReturns(r) ==
  /\ reqs[r].pc = "load"
  /\ \/ /\ modelCache.translator \/ modelCache.translatorPromise = "fulfilled"
        /\ modelCache' = [modelCache EXCEPT !.translator = TRUE]
        /\ reqs' = [reqs EXCEPT ![r].pc = "engine",
                                 ![r].translator = modelCache.instance]
     \/ /\ ~modelCache.translator /\ modelCache.translatorPromise = "rejected"
        /\ reqs' = [reqs EXCEPT ![r] = Rejected(reqs[r])]
        /\ UNCHANGED modelCache
  /\ UNCHANGED <<data, pipelineCalls, outside>>

\* localTranslate lines 45-46 and what follows it in translateText: the
\* second leg of a pivot (line 70) or Promise.all and the priority (73-83)
TranslatorSettles(r) ==
  /\ reqs[r].pc = "engine"
  /\ \/ reqs' = [reqs EXCEPT ![r] = Rejected(reqs[r])]
     \/ \E raw \in EngineOutputs :
          LET out == TranslationText(raw, reqs[r].input)
          IN IF NeedsPivot(reqs[r].target, reqs[r].source) /\ reqs[r].leg = 1
             THEN reqs' = [reqs EXCEPT ![r].pc = "load", ![r].leg = 2, ![r].input = out,
                                       ![r].engineCalls = 2]
             ELSE reqs' = [reqs EXCEPT
                             ![r].pc = "update",
                             ![r].localResult = out,
                             ![r].settled = "resolved",
                             ![r].translatedText = Priority(reqs[r].text, reqs[r].phrase, out)]
  /\ UNCHANGED <<data, modelCache, pipelineCalls, outside>>

\* POST /translate lines 41-103: the CSV update and the response.  Each of
\* readFileSync, appendFileSync and writeFileSync may throw.
CsvUpdate(r) ==
  /\ reqs[r].pc = "update"
  /\ LET processedText == reqs[r].text
         translatedText == reqs[r].translatedText
         csvFile == PairFileName(reqs[r].source, reqs[r].target)
         line == FormatRecord(processedText, translatedText)
         exists == csvFile \in DOMAIN data
     IN IF ~IsNewTranslation(translatedText, processedText)
        THEN /\ reqs' = [reqs EXCEPT ![r].pc = "done", ![r].status = 200]
             /\ UNCHANGED data
        ELSE \E readFails, appendFails, writeFails \in BOOLEAN :
               LET readThrew == exists /\ readFails
                   found == exists /\ ~readThrew /\ FoundInCsv(data[csvFile], processedText)
                   appendThrew == ~readThrew /\ ~found /\ appendFails
               IN IF ~readThrew /\ ~appendThrew
                  THEN IF found
                       THEN /\ reqs' = [reqs EXCEPT ![r].pc = "done", ![r].status = 200]
                            /\ UNCHANGED data
                       ELSE /\ data' = (csvFile :> ((IF exists THEN data[csvFile] ELSE << >>) \o line))
                                          @@ data
                            /\ reqs' = [reqs EXCEPT ![r].pc = "done", ![r].status = 200,
                                                    ![r].wrote = "append"]
                  ELSE IF writeFails
                       THEN /\ reqs' = [reqs EXCEPT ![r].pc = "done", ![r].status = 500,
                                                    ![r].ioFault = TRUE]
                            /\ UNCHANGED data
                       ELSE /\ data' = (csvFile :> line) @@ data
                            /\ reqs' = [reqs EXCEPT ![r].pc = "done", ![r].status = 200,
                                                    ![r].wrote = "write", ![r].ioFault = TRUE]
  /\ UNCHANGED <<modelCache, pipelineCalls, outside>>

Next ==
  \/ \E r \in Slots : PostTranslate(r)
  \/ \E r \in Slots : PhraseAndLocal(r)
  \/ PipelineSettles
  \/ \E r \in Slots : LoadModelReturns(r)
  \/ \E r \in Slots : TranslatorSettles(r)
  \/ \E r \in Slots : CsvUpdate(r)

Spec == Init /\ [][Next]_vars

\* ------------------------------------- translateText with any language code
\* The target language is whatever the request body carries; "fr" stands for
\* a code that languageMap and nllbLangMap do not have.
AnyCodes == Langs \cup {"fr"}

PostTranslateAnyCode(r) ==
  /\ CanStart(r)
  /\ \E processedText \in Texts, targetLanguage \in AnyCodes :
       reqs' = [reqs EXCEPT ![r] =
                  [TranslateTextEntry(processedText, targetLanguage,
                                      detectLanguage(processedText).language)
                     EXCEPT !.detectCalls = 1]]
  /\ UNCHANGED <<data, modelCache, pipelineCalls, outside>>

NextAnyCode ==
  \/ \E r \in Slots : PostTranslateAnyCode(r)
  \/ \E r \in Slots : PhraseAndLocal(r)
  \/ PipelineSettles
  \/ \E r \in Slots : LoadModelReturns(r)
  \/ \E r \in Slots : TranslatorSettles(r)
  \/ \E r \in Slots : CsvUpdate(r)

SpecAnyCode == Init /\ [][NextAnyCode]_vars

\* ------------------------------- POST /audio/transcribe-and-translate
\* pollRes.data.text of the completed transcript; '' when the polling loop
\* ended without one
Transcripts == {Falsy, TextA, TextDeva}

\* pollRes.data.language_code, as its pieces between '-'; << >> is a missing
\* code
LanguageCodes == {<< >>, <<"en">>, <<"en", "us">>, <<"hi">>, <<"ta">>, <<"fr">>}

supportedLangs == {"en", "hi", "mr", "ta", "te"}

\* lines 61 and 71: (language_code || 'en').split('-')[0]
SourceLangOf(languageCode) == IF languageCode = << >> THEN "en" ELSE languageCode[1]

\* line 52: the polling loop's limit
PollLimit == 20

\* the loop that goes on after a 'failed' status
KeepsPollingAfterFailed(status, i) == status # "completed" /\ i < PollLimit

\* pollRes.data.status
PollStatuses == {"processing", "completed", "failed"}

\* what req.body and the environment can be at lines 12-26
AudioInputs == {"ok", "missing", "nofile", "nokey"}

\* lines 10-38: the checks of the body, of the file and of the API key,
\* then the upload is awaited
AudioRequest ==
  /\ audio.pc = "idle"
  /\ \E input \in AudioInputs, targetLanguage \in Langs :
       audio' = IF input = "missing" THEN [IdleAudio EXCEPT !.pc = "done", !.status = 400]
                ELSE IF input = "nofile" THEN [IdleAudio EXCEPT !.pc = "done", !.status = 404]
                ELSE IF input = "nokey" THEN [IdleAudio EXCEPT !.pc = "done", !.status = 500]
                ELSE [IdleAudio EXCEPT !.pc = "submit", !.target = targetLanguage]
  /\ UNCHANGED <<data, modelCache, pipelineCalls, reqs, detection, chat>>

\* lines 29-53: the upload and the transcription request settle (a rejection
\* of either reaches the catch), the loop starts
AudioSubmitSettles ==
  /\ audio.pc = "submit"
  /\ \/ audio' = [audio EXCEPT !.pc = "done", !.status = 500]
     \/ audio' = [audio EXCEPT !.pc = "poll"]
  /\ UNCHANGED <<data, modelCache, pipelineCalls, reqs, detection, chat>>

\* lines 52 and 59-65: the loop goes round again after poll number i (from
\* 1) unless it broke or returned
KeepsPolling(status, i) == status \notin {"completed", "failed"} /\ i < PollLimit

\* lines 52-66: one round of the loop, the timer and the GET of the
\* transcript settled
AudioPollSettles ==
  /\ audio.pc = "poll"
  /\ \/ audio' = [audio EXCEPT !.pc = "done", !.status = 500, !.polls = @ + 1,
                                !.lastStatus = "rejected"]
     \/ \E status \in PollStatuses, text \in Transcripts, languageCode \in LanguageCodes :
          /\ status # "completed" => text = Falsy /\ languageCode = << >>
          /\ LET i == audio.polls + 1
                 polled == [audio EXCEPT !.polls = i, !.lastStatus = status]
             IN audio' = IF KeepsPolling(status, i) THEN polled
                         ELSE IF status = "completed"
                         THEN [polled EXCEPT !.pc = "polled", !.transcript = text,
                                             !.languageCode = languageCode]
                         ELSE IF status = "failed"
                         THEN [polled EXCEPT !.pc = "done", !.status = 500]
                         ELSE [polled EXCEPT !.pc = "polled"]
  /\ UNCHANGED <<data, modelCache, pipelineCalls, reqs, detection, chat>>

\* lines 67-75: the loop is over; the checks, then localTranslate is
\* called with the transcript, the detected and the requested language
AudioTranscribed ==
  /\ audio.pc = "polled"
  /\ LET transcriptText == audio.transcript
         sourceLang == SourceLangOf(audio.languageCode)
     IN IF transcriptText = Falsy
        THEN /\ audio' = [audio EXCEPT !.pc = "done", !.status = 500]
             /\ UNCHANGED <<modelCache, pipelineCalls>>
        ELSE IF sourceLang \notin supportedLangs
        THEN /\ audio' = [audio EXCEPT !.pc = "done", !.source = sourceLang,
                                       !.status = 400]
             /\ UNCHANGED <<modelCache, pipelineCalls>>
        ELSE /\ audio' = [audio EXCEPT !.pc = "load", !.source = sourceLang,
                                       !.engineCalls = 1]
             /\ LoadModelCall
  /\ UNCHANGED <<data, reqs, detection, chat>>

\* loadModel after its await, inside the route's localTranslate call; a
\* rejection reaches the route's catch (lines 78-81)
AudioLoadModelReturns ==
  /\ audio.pc = "load"
  /\ \/ /\ modelCache.translator \/ modelCache.translatorPromise = "fulfilled"
        /\ modelCache' = [modelCache EXCEPT !.translator = TRUE]
        /\ audio' = [audio EXCEPT !.pc = "engine", !.translator = modelCache.instance]
     \/ /\ ~modelCache.translator /\ modelCache.translatorPromise = "rejected"
        /\ audio' = [audio EXCEPT !.pc = "done", !.status = 500]
        /\ UNCHANGED modelCache
  /\ UNCHANGED <<data, pipelineCalls, reqs, detection, chat>>

\* localTranslate lines 45-46, then the response of line 77
AudioTranslatorSettles ==
  /\ audio.pc = "engine"
  /\ \/ audio' = [audio EXCEPT !.pc = "done", !.status = 500]
     \/ \E raw \in EngineOutputs :
          audio' = [audio EXCEPT !.pc = "done",
                                 !.translation = TranslationText(raw, audio.transcript),
                                 !.status = 200]
  /\ UNCHANGED <<data, modelCache, pipelineCalls, reqs, detection, chat>>

NextAudio ==
  \/ AudioRequest
  \/ AudioSubmitSettles
  \/ AudioPollSettles
  \/ AudioTranscribed
  \/ PipelineSettles
  \/ AudioLoadModelReturns
  \/ AudioTranslatorSettles

SpecAudio == Init /\ [][NextAudio]_vars

\* every call the handler awaits settles
SpecAudioFair == SpecAudio /\ WF_vars(NextAudio)

\* ------------------------------------------------ detectLanguage alone
\* Code units at and next to the ends of the three ranges, and "a":
\* U+0900, U+097F, U+0980, U+0B7F, U+0B80, U+0BFF, U+0C00, U+0C7F, U+0C80
DetectAlphabet == {97, 2304, 2431, 2432, 2943, 2944, 3071, 3072, 3199, 3200}

MaxDetectLen == 2

DetectTexts == UNION {[1..n -> DetectAlphabet] : n \in 0..MaxDetectLen}

\* a call of detectLanguage (translation.js lines 32 and 134)
DetectLanguageCall ==
  /\ \E text \in DetectTexts :
       detection' = [called |-> TRUE, text |-> text,
                     language |-> detectLanguage(text).language,
                     confidence |-> detectLanguage(text).confidence]
  /\ UNCHANGED <<data, modelCache, pipelineCalls, reqs, audio, chat>>

NextDetect == DetectLanguageCall

SpecDetect == Init /\ [][NextDetect]_vars

\* ------------------------------------------------------- the socket server
\* (server.js, lines 239-347 of the source file)
LiveSockets == {s \in SocketIds : sockets[s].state = "live"}

\* connectedUsers.set(key, value)
MapSet(map, key, value) == (key :> value) @@ map

\* connectedUsers.delete(key)
MapDelete(map, key) == [k \in DOMAIN map \ {key} |-> map[k]]

\* io.on('connection'), lines 240-251.  The isOnline update is not awaited
\* and its failure is only logged.
Connection(s) ==
  /\ sockets[s].state = "new"
  /\ \A t \in SocketIds : t < s => sockets[t].state # "new"
  /\ \E userId \in Users \cup {NoUser} :
       /\ sockets' = [sockets EXCEPT ![s] = [state |-> "live", userId |-> userId,
                                             rooms |-> {}]]
       /\ IF userId # NoUser
          THEN /\ connectedUsers' = MapSet(connectedUsers, userId, s)
               /\ \E updateFails \in BOOLEAN :
                    online' = IF updateFails THEN online
                              ELSE [online EXCEPT ![userId] = TRUE]
               /\ emitted' = emitted \cup
                    {[event |-> "user_online", userId |-> userId, isOnline |-> TRUE,
                      from |-> s]}
          ELSE UNCHANGED <<connectedUsers, online, emitted>>
  /\ UNCHANGED <<pipelineVars, sends, messages, conversations, storyVars, edits>>

\* socket.on('joinConversation'), lines 253-256
JoinConversation(s) ==
  /\ sockets[s].state = "live"
  /\ \E conversationId \in ConversationIds :
       /\ conversationId \notin sockets[s].rooms
       /\ sockets' = [sockets EXCEPT ![s].rooms = @ \cup {conversationId}]
  /\ UNCHANGED <<pipelineVars, connectedUsers, online, emitted, sends, messages,
                 conversations, storyVars, edits>>

\* socket.on('leaveConversation'), lines 258-261
LeaveConversation(s) ==
  /\ sockets[s].state = "live"
  /\ \E conversationId \in sockets[s].rooms :
       sockets' = [sockets EXCEPT ![s].rooms = @ \ {conversationId}]
  /\ UNCHANGED <<pipelineVars, connectedUsers, online, emitted, sends, messages,
                 conversations, storyVars, edits>>

\* socket.on('sendMessage'), lines 264-309: the two checks, then the message
\* is built and newMessage.save() is awaited
SendMessage(h, s) ==
  /\ sends[h].pc = "idle"
  /\ \A g \in SendIds : g < h => sends[g].pc # "idle"
  /\ sockets[s].state = "live"
  /\ \E conversationId \in ConversationIds \cup {NoConversation}, text \in {Falsy, TextA} :
       LET senderId == sockets[s].userId
           call == [IdleSend EXCEPT !.socket = s, !.senderId = senderId,
                                    !.conversationId = conversationId, !.text = text]
       IN sends' = [sends EXCEPT ![h] =
                      IF senderId = NoUser THEN [call EXCEPT !.pc = "done"]
                      ELSE IF conversationId = NoConversation \/ text = Falsy
                      THEN [call EXCEPT !.pc = "done"]
                      ELSE [call EXCEPT !.pc = "save"]]
  /\ UNCHANGED <<pipelineVars, sockets, connectedUsers, online, emitted, messages,
                 conversations, storyVars, edits>>

\* the id of the message document handler h creates
MessageIdOf(h) == <<"s1", "s2", "s3", "s4">>[h]

\* lines 309 and 324-326: newMessage.save() settles
SaveSettles(h) ==
  /\ sends[h].pc = "save"
  /\ \/ /\ sends' = [sends EXCEPT ![h].pc = "done"]
        /\ UNCHANGED messages
     \/ /\ messages' = MapSet(messages, MessageIdOf(h),
                               [senderId |-> sends[h].senderId,
                                conversationId |-> sends[h].conversationId,
                                textOriginal |-> sends[h].text,
                                editedAt |-> NoDate, isDeleted |-> FALSE])
        /\ sends' = [sends EXCEPT ![h].pc = "update", ![h].saved = TRUE]
  /\ UNCHANGED <<pipelineVars, sockets, connectedUsers, online, emitted, conversations,
                 storyVars, edits>>

\* lines 312-316: Conversation.findByIdAndUpdate settles; for an id without
\* a document it resolves and changes nothing
UpdateSettles(h) ==
  /\ sends[h].pc = "update"
  /\ \/ /\ sends' = [sends EXCEPT ![h].pc = "done"]
        /\ UNCHANGED conversations
     \/ IF sends[h].conversationId \in DOMAIN conversations
        THEN /\ conversations' =
                  [conversations EXCEPT ![sends[h].conversationId] =
                     [lastMessageText |-> sends[h].text,
                      lastMessageBy |-> sends[h].senderId]]
             /\ sends' = [sends EXCEPT ![h].pc = "find", ![h].updated = TRUE]
        ELSE /\ sends' = [sends EXCEPT ![h].pc = "find"]
             /\ UNCHANGED conversations
  /\ UNCHANGED <<pipelineVars, sockets, connectedUsers, online, emitted, messages,
                 storyVars, edits>>

\* the sockets socket.broadcast.to(room) reaches: those in the room, the
\* sending socket excepted
BroadcastTo(room, s) == {t \in LiveSockets : room \in sockets[t].rooms /\ t # s}

\* lines 319-321: Message.findById(...).populate(...) settles, then the
\* broadcast
FindSettles(h) ==
  /\ sends[h].pc = "find"
  /\ \/ sends' = [sends EXCEPT ![h].pc = "done"]
     \/ sends' = [sends EXCEPT ![h].pc = "done", ![h].broadcast = TRUE,
                               ![h].recipients =
                                  BroadcastTo(sends[h].conversationId, sends[h].socket)]
  /\ UNCHANGED <<pipelineVars, sockets, connectedUsers, online, emitted, messages,
                 conversations, storyVars, edits>>

\* socket.on('disconnect'), lines 329-335: socket.io has taken the socket
\* out of its rooms; the handler awaits the isOnline update
Disconnect(s) ==
  /\ sockets[s].state = "live"
  /\ sockets' = [sockets EXCEPT ![s].state =
                    IF sockets[s].userId # NoUser THEN "closing" ELSE "closed",
                                ![s].rooms = {}]
  /\ UNCHANGED <<pipelineVars, connectedUsers, online, emitted, sends, messages,
                 conversations, storyVars, edits>>

\* lines 332-344: the update settles; on success the offline broadcast and
\* connectedUsers.delete ("closed"), on failure the catch ("failed")
DisconnectResumes(s) ==
  /\ sockets[s].state = "closing"
  /\ \/ /\ sockets' = [sockets EXCEPT ![s].state = "closed"]
        /\ online' = [online EXCEPT ![sockets[s].userId] = FALSE]
        /\ emitted' = emitted \cup
             {[event |-> "user_online", userId |-> sockets[s].userId,
               isOnline |-> FALSE, from |-> s]}
        /\ connectedUsers' = MapDelete(connectedUsers, sockets[s].userId)
     \/ /\ sockets' = [sockets EXCEPT ![s].state = "failed"]
        /\ UNCHANGED <<connectedUsers, online, emitted>>
  /\ UNCHANGED <<pipelineVars, sends, messages, conversations, storyVars, edits>>

NextSocket ==
  \/ \E s \in SocketIds : Connection(s)
  \/ \E s \in SocketIds : JoinConversation(s)
  \/ \E s \in SocketIds : LeaveConversation(s)
  \/ \E h \in SendIds, s \in SocketIds : SendMessage(h, s)
  \/ \E h \in SendIds : SaveSettles(h)
  \/ \E h \in SendIds : UpdateSettles(h)
  \/ \E h \in SendIds : FindSettles(h)
  \/ \E s \in SocketIds : Disconnect(s)
  \/ \E s \in SocketIds : DisconnectResumes(s)

SpecSocket == Init /\ [][NextSocket]_vars

\* the sender test that lets every user through
IsSenderAlways(message, userId) == TRUE

\* ------------------------------------------------------ the messages routes
\* (routes/messages.js, DELETE and PATCH /:messageId)

\* lines 274 and 393: message.senderId.toString() === userId.toString()
IsSender(message, userId) == message.senderId = userId

EditRespond(e, status) ==
  /\ edits' = [edits EXCEPT ![e].pc = "done", ![e].status = status]
  /\ UNCHANGED <<pipelineVars, socketVars, messages, storyVars>>

\* DELETE /:messageId, lines 264-269, and PATCH /:messageId, lines 380-388:
\* the edit's text check, then Message.findById is awaited
MessageRequest(e) ==
  /\ edits[e].pc = "idle"
  /\ \A g \in EditIds : g < e => edits[g].pc # "idle"
  /\ \E method \in {"DELETE", "PATCH"}, user \in Users, messageId \in MessageIds,
        text \in EditTexts :
       LET call == [IdleEdit EXCEPT !.method = method, !.user = user,
                                    !.messageId = messageId, !.text = text]
       IN /\ method = "DELETE" => text = Falsy
          /\ edits' = [edits EXCEPT ![e] =
                         IF method = "PATCH" /\ (text = Falsy \/ Len(Trim(text)) = 0)
                         THEN [call EXCEPT !.pc = "done", !.status = 400]
                         ELSE [call EXCEPT !.pc = "find"]]
  /\ UNCHANGED <<pipelineVars, socketVars, messages, storyVars>>

\* lines 269-279 and 388-401: findById settles; 404 for no message, 403 for
\* another user's; the sender's request goes on to softDelete() or to
\* save() of the new text
MessageFindSettles(e) ==
  /\ edits[e].pc = "find"
  /\ \/ EditRespond(e, 500)
     \/ IF edits[e].messageId \notin DOMAIN messages
        THEN EditRespond(e, 404)
        ELSE IF ~IsSender(messages[edits[e].messageId], edits[e].user)
        THEN EditRespond(e, 403)
        ELSE /\ edits' = [edits EXCEPT ![e].pc = "write"]
             /\ UNCHANGED <<pipelineVars, socketVars, messages, storyVars>>

\* lines 399-403: message.save() settles, textOriginal and editedAt written
EditSaveSettles(e) ==
  /\ edits[e].pc = "write"
  /\ edits[e].method = "PATCH"
  /\ \/ EditRespond(e, 500)
     \/ /\ messages' = [messages EXCEPT ![edits[e].messageId].textOriginal = edits[e].text,
                                        ![edits[e].messageId].editedAt = clock]
        /\ edits' = [edits EXCEPT ![e].pc = "done", ![e].status = 200]
        /\ UNCHANGED <<pipelineVars, socketVars, storyVars>>

\* lines 279-281: message.softDelete() settles, the message marked deleted
SoftDeleteSettles(e) ==
  /\ edits[e].pc = "write"
  /\ edits[e].method = "DELETE"
  /\ \/ EditRespond(e, 500)
     \/ /\ messages' = [messages EXCEPT ![edits[e].messageId].isDeleted = TRUE]
        /\ edits' = [edits EXCEPT ![e].pc = "done", ![e].status = 200]
        /\ UNCHANGED <<pipelineVars, socketVars, storyVars>>

NextMessages ==
  \/ \E e \in EditIds : MessageRequest(e)
  \/ \E e \in EditIds : MessageFindSettles(e)
  \/ \E e \in EditIds : EditSaveSettles(e)
  \/ \E e \in EditIds : SoftDeleteSettles(e)

SpecMessages == Init /\ [][NextMessages]_vars

\* the filter without the friends test
VisibleToAll(docs, user, friendIds) == docs

\* ------------------------------------------------------ the stories routes
\* (routes/stories.js, lines 436-588 of the source file; the Story model)

\* POST /stories, lines 529-557: Story.create with createdAt = Date.now()
\* and the poll of the request body as it came
PostStory ==
  /\ "st2" \notin DOMAIN stories
  /\ \E user \in Users, poll \in PostedPolls :
       stories' = MapSet(stories, "st2",
                         [userId |-> user, createdAt |-> clock,
                          hasPoll |-> DOMAIN poll # {}, options |-> poll,
                          votesByUser |-> << >>])
  /\ UNCHANGED <<pipelineVars, socketVars, messages, edits, votes, clock, fetches>>

\* PATCH /stories/:id/vote, lines 444-451: the optionId checks, then
\* Story.findById is awaited
VoteRequest(v) ==
  /\ votes[v].pc = "idle"
  /\ \A w \in VoteIds : w < v => votes[w].pc # "idle"
  /\ \E user \in Users, storyId \in StoryIds, optionId \in OptionInputs :
       LET call == [IdleVote EXCEPT !.user = user, !.storyId = storyId,
                                    !.optionId = optionId]
       IN votes' = [votes EXCEPT ![v] =
                      IF optionId = NoOption
                      THEN [call EXCEPT !.pc = "done", !.status = 400,
                                        !.message = "Missing optionId"]
                      ELSE [call EXCEPT !.pc = "find"]]
  /\ UNCHANGED <<pipelineVars, socketVars, messages, edits, stories, clock, fetches>>

\* line 457: if (story.poll.votesByUser[userId]), a test of the recorded
\* option id's truthiness
AlreadyVoted(votesByUser, userId) ==
  userId \in DOMAIN votesByUser /\ votesByUser[userId] # 0

VoteRespond(v, status, message) ==
  /\ votes' = [votes EXCEPT ![v].pc = "done", ![v].status = status,
                            ![v].message = message]
  /\ UNCHANGED <<pipelineVars, socketVars, messages, edits, stories, clock, fetches>>

\* lines 451-466: findById settles; the checks; the option's count and the
\* user's entry are changed in the loaded document, and story.save() is
\* awaited
VoteFindSettles(v) ==
  /\ votes[v].pc = "find"
  /\ \/ VoteRespond(v, 500, "Failed to vote")
     \/ LET id == votes[v].storyId
            userId == votes[v].user
            optionId == votes[v].optionId
        IN IF id \notin DOMAIN stories
           THEN VoteRespond(v, 404, "Story or poll not found")
           ELSE IF ~stories[id].hasPoll
           THEN VoteRespond(v, 404, "Story or poll not found")
           ELSE IF AlreadyVoted(stories[id].votesByUser, userId)
           THEN VoteRespond(v, 400, "Already voted")
           ELSE IF optionId \notin DOMAIN stories[id].options
           THEN VoteRespond(v, 404, "Option not found")
           ELSE /\ votes' = [votes EXCEPT
                               ![v].pc = "save",
                               ![v].seen = stories[id].votesByUser,
                               ![v].options =
                                  [stories[id].options EXCEPT ![optionId] = @ + 1],
                               ![v].votesByUser =
                                  MapSet(stories[id].votesByUser, userId, optionId)]
                /\ UNCHANGED <<pipelineVars, socketVars, messages, edits, stories, clock,
                               fetches>>

\* line 466 and the catch: story.save() settles.  It writes the values the
\* handler assigned in its copy of the document: the voted option's count
\* and the votesByUser object (the schema has no version key, so a save
\* over a document another request changed in between goes through)
VoteSaveSettles(v) ==
  /\ votes[v].pc = "save"
  /\ LET id == votes[v].storyId
         optionId == votes[v].optionId
     IN \/ /\ votes' = [votes EXCEPT ![v].pc = "done", ![v].status = 500,
                                      ![v].message = "Failed to vote"]
           /\ UNCHANGED stories
        \/ /\ id \in DOMAIN stories
           /\ stories' = [stories EXCEPT
                            ![id].options = [@ EXCEPT ![optionId] = votes[v].options[optionId]],
                            ![id].votesByUser = votes[v].votesByUser]
           /\ votes' = [votes EXCEPT ![v].pc = "done", ![v].status = 200]
  /\ UNCHANGED <<pipelineVars, socketVars, messages, edits, clock, fetches>>

NextVote ==
  \/ PostStory
  \/ \E v \in VoteIds : VoteRequest(v)
  \/ \E v \in VoteIds : VoteFindSettles(v)
  \/ \E v \in VoteIds : VoteSaveSettles(v)

SpecVote == Init /\ [][NextVote]_vars

\* line 502: 1000 * 60 * 60 * 12 ms, in hours
StoryLifetime == 12

\* the step of the clock, in hours
TickHours == 6

\* time passes between two requests or two steps of one
Tick ==
  /\ clock + TickHours <= MaxClock
  /\ clock' = clock + TickHours
  /\ UNCHANGED <<pipelineVars, socketVars, messages, edits, stories, votes, fetches>>

FetchFails(f) ==
  /\ fetches' = [fetches EXCEPT ![f].pc = "done", ![f].status = 500]
  /\ UNCHANGED <<pipelineVars, socketVars, messages, edits, stories, votes, clock>>

\* GET /stories, lines 500-504: the cutoff is computed and deleteMany is
\* awaited
GetStories(f) ==
  /\ fetches[f].pc = "idle"
  /\ \A g \in FetchIds : g < f => fetches[g].pc # "idle"
  /\ \E user \in Users :
       fetches' = [fetches EXCEPT ![f] =
                     [IdleFetch EXCEPT !.pc = "delete", !.user = user, !.at = clock,
                                       !.cutoff = clock - StoryLifetime]]
  /\ UNCHANGED <<pipelineVars, socketVars, messages, edits, stories, votes, clock>>

\* line 504: Story.deleteMany({ createdAt: { $lt: cutoff } }) settles
DeleteManySettles(f) ==
  /\ fetches[f].pc = "delete"
  /\ \/ FetchFails(f)
     \/ /\ stories' = [id \in {i \in DOMAIN stories :
                                  ~(stories[i].createdAt < fetches[f].cutoff)}
                         |-> stories[id]]
        /\ fetches' = [fetches EXCEPT ![f].pc = "find"]
        /\ UNCHANGED <<pipelineVars, socketVars, messages, edits, votes, clock>>

\* lines 505-506: Story.find({ createdAt: { $gte: cutoff } }) settles
FindStoriesSettles(f) ==
  /\ fetches[f].pc = "find"
  /\ \/ FetchFails(f)
     \/ /\ fetches' = [fetches EXCEPT
                         ![f].pc = "friends",
                         ![f].docs =
                            {[id |-> i, userId |-> stories[i].userId,
                              createdAt |-> stories[i].createdAt] :
                               i \in {j \in DOMAIN stories :
                                        stories[j].createdAt >= fetches[f].cutoff}}]
        /\ UNCHANGED <<pipelineVars, socketVars, messages, edits, stories, votes, clock>>

\* lines 514-515: the stories of friends and of the user
Visible(docs, user, friendIds) ==
  {d \in docs : d.userId \in friendIds \/ d.userId = user}

\* lines 509-521: FriendRequest.getFriendsList settles with the user's
\* friends, the filter, the response
GetFriendsListSettles(f) ==
  /\ fetches[f].pc = "friends"
  /\ \/ FetchFails(f)
     \/ /\ \E friendIds \in SUBSET (Users \ {fetches[f].user}) :
             fetches' = [fetches EXCEPT
                           ![f].pc = "done", ![f].status = 200,
                           ![f].friendIds = friendIds,
                           ![f].stories = Visible(fetches[f].docs, fetches[f].user,
                                                  friendIds)]
        /\ UNCHANGED <<pipelineVars, socketVars, messages, edits, stories, votes, clock>>

NextStories ==
  \/ PostStory
  \/ Tick
  \/ \E f \in FetchIds : GetStories(f)
  \/ \E f \in FetchIds : DeleteManySettles(f)
  \/ \E f \in FetchIds : FindStoriesSettles(f)
  \/ \E f \in FetchIds : GetFriendsListSettles(f)

SpecStories == Init /\ [][NextStories]_vars

\* ====================================================================
\* The claims
\* ====================================================================
Started(r) == reqs[r].pc # "idle"
Answered(r) == reqs[r].pc = "done"

\* C1: a POST /translate request answered from the idiom table writes no
\* record to any phrase-cache file.
C1_IdiomAnswerWritesNothing ==
  \A r \in Slots :
    (Answered(r) /\ reqs[r].idiom # Falsy) => reqs[r].wrote = "none"

\* C2: when the idiom table or the phrase cache already has the answer, a
\* failing engine does not make translateText fail: it resolves with that
\* value.
C2_HitSurvivesEngineFailure ==
  \A r \in Slots :
    (reqs[r].settled # "pending" /\ (reqs[r].idiom # Falsy \/ reqs[r].phrase # Falsy))
      => /\ reqs[r].settled = "resolved"
         /\ reqs[r].translatedText =
              (IF reqs[r].idiom # Falsy THEN reqs[r].idiom ELSE reqs[r].phrase)

\* request r repeats request q: q was answered, before r arrived, with an
\* engine translation of a phrase found in no table, the record was appended,
\* and r carries the same text, source and target language
Repeats(r, q) ==
  /\ q \in reqs[r].after
  /\ reqs[q].idiom = Falsy /\ reqs[q].phrase = Falsy
  /\ reqs[q].wrote = "append"
  /\ reqs[q].translatedText = reqs[q].localResult
  /\ reqs[r].text = reqs[q].text
  /\ reqs[r].source = reqs[q].source
  /\ reqs[r].target = reqs[q].target

IsRepeat(r) == Started(r) /\ \E q \in Slots : Repeats(r, q)

C4_TranslateTextNeverRejects ==
  \A r \in Slots :
    (Started(r) /\ reqs[r].source \in Langs /\ reqs[r].target \in Langs)
      => reqs[r].settled # "rejected"

\* C5: once the translation is computed, a failure of the cache update never
\* turns the response into the 500 'Translation failed'.
C5_CacheWriteFailureSwallowed ==
  \A r \in Slots :
    (Answered(r) /\ reqs[r].settled = "resolved") => reqs[r].status = 200

IsPrefix(s, t) == Len(s) <= Len(t) /\ SubSeq(t, 1, Len(s)) = s

PhraseFiles(dir) == {f \in DOMAIN dir : \E s \in Langs, t \in Langs : f = PairFileName(s, t)}

\* C6: the phrase cache is append-only: every step keeps every phrase file
\* and keeps its old content as a prefix of the new content.
C6_PhraseCacheAppendOnly ==
  [][\A f \in PhraseFiles(data) :
       f \in DOMAIN data' /\ IsPrefix(data[f], data'[f])]_vars

\* C7: the CSV update of a request whose phrase is in neither the idiom table
\* nor the phrase cache, and whose engine result differs from the input,
\* appends exactly the record (input, translation) to the file of
\* (source, target), creating it if needed, and touches no other file
\* (no file-system call failing).
C7_NovelPhraseAppendsOneRecord ==
  [][\A r \in Slots :
       LET req == reqs[r]
           csvFile == PairFileName(req.source, req.target)
           old == IF csvFile \in DOMAIN data THEN data[csvFile] ELSE << >>
       IN (/\ req.pc = "update" /\ reqs'[r].pc = "done" /\ ~reqs'[r].ioFault
           /\ req.idiom = Falsy /\ req.phrase = Falsy
           /\ getPhraseFromCSV(data, req.text, req.source, req.target, FALSE) = Falsy
           /\ IsNewTranslation(req.localResult, req.text))
          => data' = (csvFile :> (old \o FormatRecord(req.text, req.localResult))) @@ data
    ]_vars

\* C8: when the phrase lookup hit and the engine call resolved, translateText
\* returns the phrase-cache value, whatever the engine produced.
C8_PhraseWinsOverEngine ==
  \A r \in Slots :
    (reqs[r].settled = "resolved" /\ reqs[r].phrase # Falsy)
      => reqs[r].translatedText = reqs[r].phrase

C8_Witness ==
  \E r \in Slots :
    /\ reqs[r].settled = "resolved"
    /\ reqs[r].phrase # Falsy
    /\ reqs[r].localResult # Falsy
    /\ ~SameText(reqs[r].localResult, reqs[r].text)
    /\ reqs[r].localResult # reqs[r].phrase
    /\ reqs[r].translatedText = reqs[r].phrase

\* the idiom table of a directed pair, as records
IdiomTable(sourceLang, targetLang) ==
  IF sourceLang = "en" /\ targetLang = "hi" THEN IdiomRecordsEnHi ELSE << >>

IdiomEntries(text, sourceLang, targetLang) ==
  {i \in 1..Len(IdiomTable(sourceLang, targetLang)) :
     SameText(IdiomTable(sourceLang, targetLang)[i].src, text)}

FirstIdiom(text, sourceLang, targetLang) ==
  IdiomTable(sourceLang, targetLang)[
    CHOOSE i \in IdiomEntries(text, sourceLang, targetLang) :
      \A j \in IdiomEntries(text, sourceLang, targetLang) : i <= j].tgt

\* C9: when the idiom table of the directed pair has the trimmed input phrase
\* (case-insensitively), translateText resolves with the idiom value and makes
\* neither a phrase-cache lookup nor an engine call.
C9_IdiomFirst ==
  \A r \in Slots :
    (Started(r) /\ IdiomEntries(reqs[r].text, reqs[r].source, reqs[r].target) # {})
      => /\ reqs[r].settled = "resolved"
         /\ reqs[r].translatedText = FirstIdiom(reqs[r].text, reqs[r].source, reqs[r].target)
         /\ reqs[r].phraseLookups = 0
         /\ reqs[r].engineCalls = 0

\* an idiom answer for "A ", which the table has only up to case and
\* trimming, and twice: the first record's value is returned
C9_Witness ==
  \E r \in Slots :
    /\ Answered(r)
    /\ reqs[r].text = TextUpperA
    /\ reqs[r].source = "en" /\ reqs[r].target = "hi"
    /\ Cardinality(IdiomEntries(reqs[r].text, "en", "hi")) = 2
    /\ reqs[r].translatedText = OutI
    /\ reqs[r].phraseLookups = 0
    /\ reqs[r].engineCalls = 0
    /\ reqs[r].status = 200

\* C10: translateText(t, lang, lang) resolves with t and makes no idiom
\* lookup, no phrase-cache lookup and no engine call; nothing is written.
C10_SameLanguageShortCircuit ==
  \A r \in Slots :
    (Started(r) /\ reqs[r].source = reqs[r].target)
      => /\ reqs[r].settled = "resolved"
         /\ reqs[r].translatedText = reqs[r].text
         /\ reqs[r].idiomLookups = 0
         /\ reqs[r].phraseLookups = 0
         /\ reqs[r].engineCalls = 0
         /\ reqs[r].wrote = "none"

C10_Witness ==
  \E r \in Slots :
    /\ Answered(r)
    /\ reqs[r].source = "hi" /\ reqs[r].target = "hi"
    /\ Trim(reqs[r].text) # Falsy
    /\ reqs[r].translatedText = reqs[r].text
    /\ reqs[r].status = 200

\* C11 as stated: a request with empty or whitespace-only text is answered
\* with the text unchanged, and neither the language detector, nor a cache
\* lookup, nor the engine is invoked for it.
C11_BlankTextInvokesNothing ==
  \A r \in Slots :
    (Started(r) /\ Trim(reqs[r].text) = Falsy)
      => /\ reqs[r].settled = "resolved"
         /\ reqs[r].translatedText = reqs[r].text
         /\ reqs[r].detectCalls = 0
         /\ reqs[r].idiomLookups = 0
         /\ reqs[r].phraseLookups = 0
         /\ reqs[r].engineCalls = 0

\* C11 amended: translateText returns an empty or whitespace-only text
\* unchanged with no idiom lookup, no phrase-cache lookup and no engine call,
\* and nothing is written; the POST /translate handler has called the
\* language detector once before it calls translateText.
C11_BlankTextSkipsLookupsAndEngine ==
  \A r \in Slots :
    (Started(r) /\ Trim(reqs[r].text) = Falsy)
      => /\ reqs[r].settled = "resolved"
         /\ reqs[r].translatedText = reqs[r].text
         /\ reqs[r].detectCalls = 1
         /\ reqs[r].idiomLookups = 0
         /\ reqs[r].phraseLookups = 0
         /\ reqs[r].engineCalls = 0
         /\ reqs[r].wrote = "none"

C11_Witness ==
  \E r \in Slots :
    /\ Answered(r)
    /\ reqs[r].text = TextBlank
    /\ reqs[r].source = "en" /\ reqs[r].target = "hi"
    /\ reqs[r].translatedText = TextBlank
    /\ reqs[r].detectCalls = 1
    /\ reqs[r].engineCalls = 0
    /\ reqs[r].status = 200

\* C12: when there is no idiom and no phrase-cache entry and the engine's
\* text equals the input up to case and surrounding whitespace, translateText
\* returns the input text unchanged and the handler writes no record.
C12_EngineEchoReturnsInput ==
  \A r \in Slots :
    (/\ reqs[r].settled = "resolved"
     /\ reqs[r].engineCalls >= 1
     /\ reqs[r].idiom = Falsy /\ reqs[r].phrase = Falsy
     /\ SameText(reqs[r].localResult, reqs[r].text))
      => /\ reqs[r].translatedText = reqs[r].text
         /\ reqs[r].wrote = "none"
         /\ Answered(r) => reqs[r].status = 200

\* the engine answers "A" for "A ": equal only after trimming
C12_Witness ==
  \E r \in Slots :
    /\ Answered(r)
    /\ reqs[r].text = TextUpperA
    /\ reqs[r].idiom = Falsy /\ reqs[r].phrase = Falsy
    /\ reqs[r].localResult = OutUpperA
    /\ reqs[r].translatedText = TextUpperA
    /\ reqs[r].wrote = "none"
    /\ reqs[r].status = 200

\* C13: however many calls of localTranslate meet an unloaded engine,
\* pipeline() is called once, and every caller that gets past loadModel holds
\* the translator of that one call.
C13_SingleModelLoad ==
  /\ pipelineCalls <= 1
  /\ \A r \in Slots :
       reqs[r].translator # 0 => (pipelineCalls = 1 /\ reqs[r].translator = 1)
  /\ \A r, q \in Slots :
       (reqs[r].translator # 0 /\ reqs[q].translator # 0)
         => reqs[r].translator = reqs[q].translator

\* every request has made its first localTranslate call while the engine was
\* unloaded and waits in loadModel; pipeline() was called once and its
\* promise, fulfilled by now, is the one they all await
C13_Witness ==
  /\ pipelineCalls = 1
  /\ ~modelCache.translator
  /\ modelCache.translatorPromise = "fulfilled"
  /\ \A r \in Slots : reqs[r].pc = "load" /\ reqs[r].leg = 1

\* requests r and q carry the same phrase for the same directed pair, were in
\* flight together, both missed the idiom table and the phrase cache (the file
\* was read), both got a new translation, and both were answered with no
\* file-system call of a CSV update failing
ConcurrentMisses(r, q) ==
  /\ r # q
  /\ reqs[r].text = reqs[q].text
  /\ reqs[r].source = reqs[q].source
  /\ reqs[r].target = reqs[q].target
  /\ q \notin reqs[r].after /\ r \notin reqs[q].after
  /\ \A s \in {r, q} :
       /\ Answered(s) /\ reqs[s].status = 200
       /\ reqs[s].idiom = Falsy /\ reqs[s].phrase = Falsy
       /\ reqs[s].phraseLookups = 1 /\ reqs[s].lookupFault # "unreadable"
       /\ reqs[s].engineCalls >= 1
       /\ IsNewTranslation(reqs[s].translatedText, reqs[s].text)
  /\ \A s \in Slots : ~reqs[s].ioFault

HasComma(text) == \E i \in 1..Len(text) : text[i] = Comma

C15_PivotOnEveryPath ==
  /\ \A r \in Slots :
       (reqs[r].settled = "resolved" /\ reqs[r].engineCalls >= 1
        /\ reqs[r].source # "en" /\ reqs[r].target # "en")
         => reqs[r].engineCalls = 2
  /\ (audio.pc = "done" /\ audio.status = 200
      /\ audio.source # "en" /\ audio.target # "en")
       => audio.engineCalls = 2

\* C16: a language code outside {en, hi, mr, te, ta} is treated as en: the
\* call behaves as the same call with the code replaced by en.  For a source
\* of en that is the same-language short circuit; for any other source it is
\* a single engine invocation, source to English.
C16_UnsupportedCodeIsEnglish ==
  \A r \in Slots :
    (Started(r) /\ reqs[r].target \notin Langs)
      => /\ reqs[r].engineCalls <= 1
         /\ reqs[r].source = "en"
              => /\ reqs[r].settled = "resolved"
                 /\ reqs[r].translatedText = reqs[r].text
                 /\ reqs[r].idiomLookups = 0
                 /\ reqs[r].phraseLookups = 0
                 /\ reqs[r].engineCalls = 0

HasCodeUnit(text, lo, hi) == \E i \in 1..Len(text) : lo <= text[i] /\ text[i] <= hi

\* C17: detectLanguage answers (ta, 1.0) for a text with a Tamil code point
\* (U+0B80..U+0BFF); else (te, 1.0) for one with a Telugu code point
\* (U+0C00..U+0C7F); else (hi, 0.8) for one with a Devanagari code point
\* (U+0900..U+097F); else (en, 0.5), the empty text included; never mr.
\* Confidences are in tenths.
C17_DetectPriority ==
  detection.called =>
    LET text == detection.text
        expected ==
          IF HasCodeUnit(text, 2944, 3071) THEN <<"ta", 10>>
          ELSE IF HasCodeUnit(text, 3072, 3199) THEN <<"te", 10>>
          ELSE IF HasCodeUnit(text, 2304, 2431) THEN <<"hi", 8>>
          ELSE <<"en", 5>>
    IN /\ <<detection.language, detection.confidence>> = expected
       /\ detection.language # "mr"
       /\ text = << >> => detection.language = "en" /\ detection.confidence = 5

\* a text with a Telugu code point first and a Tamil one after it is Tamil
C17_Witness ==
  /\ detection.called
  /\ detection.text = <<3072, 3071>>
  /\ detection.language = "ta"
  /\ detection.confidence = 10

\* the target of the first line, top to bottom, whose trimmed source field
\* equals the trimmed input case-insensitively; null when there is none
RECURSIVE FirstMatch(_, _)
FirstMatch(lines, text) ==
  IF lines = << >> THEN Falsy
  ELSE IF SameText(ParseLine(Head(lines)).src, text) THEN ParseLine(Head(lines)).tgt
  ELSE FirstMatch(Tail(lines), text)

MatchingLines(csv, text) ==
  {i \in 1..Len(SplitLines(csv)) : SameText(ParseLine(SplitLines(csv)[i]).src, text)}

IdiomFileMissing(r) ==
  /\ IdiomFileName(reqs[r].source, reqs[r].target) # ""
  /\ IdiomFileName(reqs[r].source, reqs[r].target) \notin DOMAIN data

\* C19: a lookup whose idiom file or phrase file is missing or unreadable is
\* a miss: it yields null, translateText does not reject because of it and
\* goes on to the next stage, the phrase lookup after the idiom lookup and the
\* engine after the phrase lookup.
C19_UnreadableFileIsMiss ==
  \A r \in Slots :
    /\ (reqs[r].idiomLookups = 1 /\ IdiomFileMissing(r))
         => /\ reqs[r].idiom = Falsy
            /\ reqs[r].pc # "phrase" => reqs[r].phraseLookups = 1
    /\ reqs[r].lookupFault # "none"
         => /\ reqs[r].phrase = Falsy
            /\ reqs[r].engineCalls >= 1
            /\ reqs[r].settled = "resolved"
                 => reqs[r].translatedText = Priority(reqs[r].text, Falsy, reqs[r].localResult)

\* hi -> en: hi-en-idioms.csv is not there and hi-en.csv, which has the
\* phrase, cannot be read; the request is answered with the engine's text
C19_Witness ==
  \E r \in Slots :
    /\ Answered(r)
    /\ reqs[r].source = "hi" /\ reqs[r].target = "en"
    /\ IdiomFileMissing(r)
    /\ reqs[r].idiomLookups = 1
    /\ reqs[r].lookupFault = "unreadable"
    /\ getPhraseFromCSV(data, reqs[r].text, "hi", "en", FALSE) # Falsy
    /\ reqs[r].phrase = Falsy
    /\ reqs[r].translatedText = OutUpperA
    /\ reqs[r].status = 200

IdiomFileNames == {s \o "-" \o t \o "-idioms.csv" : s \in Langs, t \in Langs}

\* C20: no step of a translation request creates, appends to, overwrites or
\* removes a *-idioms.csv file.
C20_IdiomTablesReadOnly ==
  [][\A f \in IdiomFileNames :
       /\ f \in DOMAIN data' <=> f \in DOMAIN data
       /\ f \in DOMAIN data => data'[f] = data[f]]_vars

\* en -> hi requests were answered from the idiom table and from the engine
\* and en-hi.csv was written; the idiom table is as it was
C20_Witness ==
  /\ \E r \in Slots :
       /\ Answered(r) /\ reqs[r].idiom # Falsy
       /\ reqs[r].source = "en" /\ reqs[r].target = "hi"
       /\ reqs[r].wrote = "append"
  /\ \E r \in Slots :
       /\ Answered(r) /\ reqs[r].engineCalls >= 1
       /\ reqs[r].source = "en" /\ reqs[r].target = "hi"
       /\ reqs[r].wrote # "none"
  /\ "en-hi.csv" \in DOMAIN data
  /\ data["en-hi-idioms.csv"] = IdiomEnHi
  /\ DOMAIN data \cap IdiomFileNames = {"en-hi-idioms.csv"}

\* ---------------------------------------------------------------- C21
\* C21: a newMessage broadcast happens only for a sendMessage from a socket
\* with a userId that carried a conversationId and a text, only after the
\* message was saved and the conversation's last-message fields were
\* updated, only to sockets in the room of that conversationId and never to
\* the sending socket; a sendMessage that fails the checks or whose save
\* fails has saved no message and broadcast nothing.
C21_BroadcastAfterSaveAndUpdate ==
  \A h \in SendIds :
    /\ sends[h].broadcast =>
         /\ sends[h].senderId # NoUser
         /\ sends[h].conversationId # NoConversation
         /\ sends[h].text # Falsy
         /\ MessageIdOf(h) \in DOMAIN messages
         /\ sends[h].conversationId \in DOMAIN conversations
         /\ sends[h].updated
         /\ sends[h].socket \notin sends[h].recipients
    /\ (sends[h].pc = "done" /\ ~sends[h].saved) =>
         /\ MessageIdOf(h) \notin DOMAIN messages
         /\ ~sends[h].updated
         /\ ~sends[h].broadcast

\* the same for the conversations that have a document
C21_BroadcastAfterSaveAndUpdateOfStoredConversation ==
  \A h \in SendIds :
    sends[h].conversationId \in DOMAIN conversations =>
      /\ sends[h].broadcast =>
           /\ sends[h].senderId # NoUser
           /\ sends[h].text # Falsy
           /\ MessageIdOf(h) \in DOMAIN messages
           /\ conversations[sends[h].conversationId].lastMessageText = sends[h].text
           /\ sends[h].socket \notin sends[h].recipients

\* a broadcast goes to sockets that were in the room when it was sent
C21_RecipientsInRoom ==
  [][\A h \in SendIds :
       (~sends[h].broadcast /\ sends'[h].broadcast) =>
         \A t \in sends'[h].recipients :
           /\ t # sends[h].socket
           /\ sockets[t].state = "live"
           /\ sends[h].conversationId \in sockets[t].rooms]_vars

\* ---------------------------------------------------------------- C22
\* the vote requests the route accepted for one story and one user
AcceptedVotes(storyId, user) ==
  {v \in VoteIds : /\ votes[v].status = 200
                   /\ votes[v].storyId = storyId
                   /\ votes[v].user = user}

\* C22: a poll accepts at most one vote per user: no accepted vote request
\* came from a user whom the loaded story's votesByUser already recorded,
\* no two accepted requests on one story came from one user, and a request
\* answered 400 or 404 wrote nothing.
C22_OneVotePerUser ==
  /\ \A v \in VoteIds :
       votes[v].status = 200 => votes[v].user \notin DOMAIN votes[v].seen
  /\ \A storyId \in StoryIds, user \in Users :
       Cardinality(AcceptedVotes(storyId, user)) <= 1

\* a request of a recorded user is never accepted
C22_RecordedUserRejected ==
  \A v \in VoteIds :
    votes[v].status = 200 => votes[v].user \notin DOMAIN votes[v].seen

\* a request answered 400 or 404 leaves the stories as they were
C22_RejectionWritesNothing ==
  [][\A v \in VoteIds :
       (votes[v].status = 0 /\ votes'[v].status \in {400, 404}) =>
         stories' = stories]_vars

\* ---------------------------------------------------------------- C23
\* the GET /stories requests whose deleteMany went through
PastDelete(f) ==
  fetches[f].pc \in {"find", "friends"} \/ fetches[f].status = 200

\* C23: a GET /stories response holds no story created more than 12 hours
\* before the request and no story whose author is neither the requesting
\* user nor one of their friends; once the request's deleteMany has gone
\* through, the store holds no story created more than 12 hours before the
\* request, whoever its author.
C23_RecentStoriesOfFriendsAndSelf ==
  \A f \in FetchIds :
    /\ fetches[f].status = 200 =>
         \A d \in fetches[f].stories :
           /\ fetches[f].at - d.createdAt <= StoryLifetime
           /\ d.userId = fetches[f].user \/ d.userId \in fetches[f].friendIds
    /\ PastDelete(f) =>
         \A id \in DOMAIN stories :
           fetches[f].at - stories[id].createdAt <= StoryLifetime

\* a request of u2 answered 200 that deleted u1's expired story and left a
\* recent story of a non-friend out of the response
C23_Witness ==
  \E f \in FetchIds :
    /\ fetches[f].status = 200
    /\ fetches[f].user = "u2"
    /\ "st1" \notin DOMAIN stories
    /\ \E d \in fetches[f].docs : d \notin fetches[f].stories

\* ---------------------------------------------------------------- C24
\* the handler that writes message m in this step
Writer(e, m) ==
  /\ edits[e].pc = "write"
  /\ edits[e].messageId = m
  /\ edits'[e].status = 200

\* C24: only its sender deletes or edits a message.  A finished request of
\* another user on a stored message was answered 403 (400 if it was an
\* edit with empty or blank text, 500 if the lookup failed); a request
\* answered 404 named an id no message has; an edit with empty or blank
\* text was answered 400; and text, editedAt and the deleted flag of a
\* message change only in the write of a request of its sender with a
\* non-blank text or a delete.
C24_OnlySenderWrites ==
  [][/\ \A m \in DOMAIN messages :
          messages'[m] # messages[m] =>
            \E e \in EditIds :
              /\ Writer(e, m)
              /\ edits[e].user = messages[m].senderId
              /\ edits[e].method = "PATCH" => Len(Trim(edits[e].text)) > 0
     /\ \A e \in EditIds :
          (edits[e].pc # "done" /\ edits'[e].pc = "done") =>
            LET r == edits'[e]
                stored == r.messageId \in DOMAIN messages
                blank == r.method = "PATCH" /\ Len(Trim(r.text)) = 0
            IN /\ blank => r.status = 400 /\ messages' = messages
               /\ (~blank /\ ~stored) => r.status \in {404, 500} /\ messages' = messages
               /\ (~blank /\ stored /\ r.user # messages[r.messageId].senderId) =>
                    r.status \in {403, 500} /\ messages' = messages
               /\ r.status = 404 => ~stored
               /\ r.status = 403 => stored /\ r.user # messages[r.messageId].senderId
               /\ r.status = 400 => blank]_vars

\* u2's edit and u2's delete of u1's message were both answered 403 and
\* the message is as it was stored
C24_Witness ==
  /\ \E e \in EditIds :
       /\ edits[e].method = "PATCH" /\ edits[e].user = "u2"
       /\ edits[e].messageId = "m1" /\ edits[e].status = 403
  /\ \E e \in EditIds :
       /\ edits[e].method = "DELETE" /\ edits[e].user = "u2"
       /\ edits[e].messageId = "m1" /\ edits[e].status = 403
  /\ messages["m1"] = StoredMessage

\* ---------------------------------------------------------------- C25
\* what holds of the audio handler in every state
C25_State ==
  /\ audio.polls <= PollLimit
  /\ audio.pc = "done" <=> audio.status # 0
  /\ (audio.pc = "done" /\ audio.lastStatus = "failed") => audio.status = 500
  /\ (audio.pc = "done" /\ audio.lastStatus \in {"processing", "completed"}
        /\ audio.transcript = Falsy) => audio.status = 500
  /\ (audio.pc = "done" /\ audio.transcript # Falsy
        /\ SourceLangOf(audio.languageCode) \notin supportedLangs) =>
       audio.status = 400 /\ audio.engineCalls = 0
  /\ audio.engineCalls > 0 =>
       /\ audio.lastStatus = "completed"
       /\ audio.transcript # Falsy
       /\ SourceLangOf(audio.languageCode) \in supportedLangs

\* what holds of every step of the audio handler
C25_Step ==
  /\ audio'.polls > audio.polls =>
       /\ audio.lastStatus \notin {"completed", "failed"}
       /\ audio'.polls = audio.polls + 1
  /\ audio.status # 0 => audio' = audio

\* C25: the audio handler always ends with exactly one response; it polls
\* at most 20 times and not again after a 'completed' or 'failed' status;
\* it responds 500 on 'failed' and when the polls gave no transcript text,
\* 400 without an engine call when the detected language is not one of
\* en, hi, mr, ta, te; and it calls the engine only after a completed
\* transcript.
C25_OneResponseAfterBoundedPolling ==
  /\ []C25_State
  /\ [][C25_Step]_vars
  /\ (audio.pc # "idle") ~> (audio.pc = "done")

\* the loop ran all its rounds without a transcript and the handler
\* answered 500
C25_Witness ==
  /\ audio.pc = "done"
  /\ audio.polls = PollLimit
  /\ audio.lastStatus = "processing"
  /\ audio.status = 500
  /\ audio.engineCalls = 0

\* ---------------------------------------------------------------- C26
\* the live sockets that connected with userId u
LiveSocketsOf(u) == {s \in LiveSockets : sockets[s].userId = u}

\* C26: whenever a user has a live socket that connected with their
\* userId, connectedUsers has an entry for the user and it is the id of one
\* of the user's live sockets.
C26_LiveUserIsConnected ==
  \A u \in Users :
    LiveSocketsOf(u) # {} =>
      /\ u \in DOMAIN connectedUsers
      /\ connectedUsers[u] \in LiveSocketsOf(u)

\* the weaker half: a user with a live socket has some entry
C26_LiveUserHasEntry ==
  \A u \in Users : LiveSocketsOf(u) # {} => u \in DOMAIN connectedUsers

\* ---------------------------------------------------------------- C27
\* the sockets of u whose disconnect handler has run to its end
ClosedSocketsOf(u) ==
  {s \in SocketIds : sockets[s].state \in {"closed", "failed"} /\ sockets[s].userId = u}

\* the user's sockets are all gone and their disconnect handlers are over
AllGone(u) ==
  /\ ClosedSocketsOf(u) # {}
  /\ \A s \in SocketIds : sockets[s].userId = u => s \in ClosedSocketsOf(u)

\* C27: once the last live socket of a user has disconnected and the
\* disconnect handlers have run, connectedUsers has no entry for the user
\* and user_online with isOnline false was emitted for them, also when the
\* update of the user's online status failed.
C27_OfflineAfterLastDisconnect ==
  \A u \in Users :
    AllGone(u) =>
      /\ u \notin DOMAIN connectedUsers
      /\ \E ev \in emitted : ev.userId = u /\ ~ev.isOnline

\* the same when the update went through in the user's disconnect handlers
C27_OfflineWhenUpdateSucceeds ==
  \A u \in Users :
    (AllGone(u) /\ \A s \in ClosedSocketsOf(u) : sockets[s].state = "closed") =>
      /\ u \notin DOMAIN connectedUsers
      /\ \E ev \in emitted : ev.userId = u /\ ~ev.isOnline

\* ---------------------------------------------------------------- C28
RECURSIVE SumVotes(_, _)
\* the sum of options[id] over the option ids in ids
SumVotes(options, ids) ==
  IF ids = {} THEN 0
  ELSE LET id == CHOOSE i \in ids : TRUE
       IN options[id] + SumVotes(options, ids \ {id})

\* C28: in every story's poll the options' vote counts add up to the number
\* of users recorded in votesByUser, and no user had two vote requests
\* accepted.
C28_VotesMatchVoters ==
  /\ \A id \in DOMAIN stories :
       SumVotes(stories[id].options, DOMAIN stories[id].options)
         = Cardinality(DOMAIN stories[id].votesByUser)
  /\ \A storyId \in StoryIds, user \in Users :
       Cardinality(AcceptedVotes(storyId, user)) <= 1

\* the counts alone, for polls whose option ids start at 1
C28_VotesMatchVotersOfStoredStory ==
  SumVotes(stories["st1"].options, DOMAIN stories["st1"].options)
    = Cardinality(DOMAIN stories["st1"].votesByUser)

\* ---------------------------------------------------------------- C29
\* C29: pipeline() is called at most once, also when the load fails: once
\* the load promise is rejected the cache stays as it is, pipeline() is not
\* called again, and every localTranslate call that comes out of loadModel
\* rejects, with the reason of that one promise.
C29_FailedLoadStaysMemoized ==
  /\ [](pipelineCalls <= 1)
  /\ [][modelCache.translatorPromise = "rejected" =>
          /\ modelCache' = modelCache
          /\ modelCache.instance = 1
          /\ pipelineCalls' = pipelineCalls
          /\ \A r \in Slots :
               (reqs[r].pc = "load" /\ reqs'[r].pc # "load") =>
                 /\ reqs'[r].settled = "rejected"
                 /\ reqs'[r].translator = 0]_vars

\* the load failed; a request that called localTranslate then was rejected,
\* and so was a request that arrived after that one had been answered
C29_Witness ==
  /\ pipelineCalls = 1
  /\ modelCache.translatorPromise = "rejected"
  /\ \E r, q \in Slots :
       /\ q \in reqs[r].after
       /\ reqs[q].settled = "rejected" /\ reqs[q].engineCalls = 1
       /\ reqs[r].settled = "rejected" /\ reqs[r].engineCalls = 1

\* ---------------------------------------------------------------- C30
\* C30: append then lookup is a round trip: when the POST /translate
\* handler has appended the record (p, t) to a pair file that was empty or
\* absent, the phrase-cache lookup of p for that pair returns t and the
\* handler's duplicate check finds p, so that a repeated request appends no
\* second record.
C30_AppendThenLookup ==
  [][\A r \in Slots :
       LET req == reqs[r]
           csvFile == PairFileName(req.source, req.target)
           wasEmpty == csvFile \in DOMAIN data => data[csvFile] = << >>
       IN (req.pc = "update" /\ reqs'[r].wrote = "append" /\ wasEmpty) =>
            /\ getPhraseFromCSV(data', req.text, req.source, req.target, FALSE)
                 = req.translatedText
            /\ FoundInCsv(data'[csvFile], req.text)]_vars

\* the same for the phrases without a comma
C30_AppendThenLookupWithoutComma ==
  [][\A r \in Slots :
       LET req == reqs[r]
           csvFile == PairFileName(req.source, req.target)
           wasEmpty == csvFile \in DOMAIN data => data[csvFile] = << >>
       IN (req.pc = "update" /\ reqs'[r].wrote = "append" /\ wasEmpty
           /\ ~HasComma(req.text)) =>
            /\ getPhraseFromCSV(data', req.text, req.source, req.target, FALSE)
                 = req.translatedText
            /\ FoundInCsv(data'[csvFile], req.text)]_vars
====
